---- MODULE Spec2Model ----
(***************************************************************************)
(* Order and settlement workflow of the marketplace backend: order         *)
(* creation, seller confirm / ship / cancel, and the payment gateway       *)
(* callbacks, as state machine over the Order, OrderItem and Product rows. *)
(***************************************************************************)
EXTENDS Integers, Sequences, FiniteSets, TLC

\* ------------------------------------------------------------------ bounds
MaxOrders == 1
MaxTime == 2
MaxConfirmCalls == 2
MaxInFlight == 2

\* EmailVerificationToken rows ever created
MaxTokens == 3
MaxNumbered == 3
TicksPerDay == 2
MaxDays == 31

\* ------------------------------------------------------- program constants
None == "None"
NoId == 0
NoTime == -1
DEFAULT_DELIVERY_FEE == 50
NoFee == -1
MIN_REVIEW_DAYS == 30
NoTracking == None

\* Order.StatusChoices: member name |-> stored value
StatusChoicesWithConfirmed ==
    [PENDING |-> "pending", PAID |-> "paid", PROCESSING |-> "processing",
     CONFIRMED |-> "confirmed", SHIPPED |-> "shipped", DELIVERED |-> "delivered",
     CANCELLED |-> "cancelled", REFUNDED |-> "refunded"]

StatusChoices ==
    [PENDING |-> "pending", PAID |-> "paid", PROCESSING |-> "processing",
     SHIPPED |-> "shipped", DELIVERED |-> "delivered",
     CANCELLED |-> "cancelled", REFUNDED |-> "refunded"]

\* Attribute access Order.StatusChoices.<name> raises AttributeError for a
\* name that is not a member of the enumeration.
HasMember(name) == name \in DOMAIN StatusChoices

PAYMENT_METHOD_SSLCOMMERZ == "sslcommerz"
PAYMENT_METHOD_CASH_ON_DELIVERY == "cod"
PAYMENT_METHODS == {PAYMENT_METHOD_SSLCOMMERZ, PAYMENT_METHOD_CASH_ON_DELIVERY}

\* --------------------------------------------------------- users, products
Users == {"b1", "s1", "s2"}

role == [u \in Users |-> IF u = "b1" THEN "BUYER" ELSE "SELLER"]

is_admin_verified == [u \in Users |-> u = "b1"]

Products == {"p1", "p2"}

seller_id == [p \in Products |-> IF p = "p1" THEN "s1" ELSE "s2"]

price == [p \in Products |-> IF p = "p1" THEN 80 ELSE 150]

InitStock == [p \in Products |-> IF p = "p1" THEN 10 ELSE 5]

\* Request bodies of POST /orders/: the items list
ItemChoices ==
    { << >>,
      << [product_id |-> "p1", quantity |-> 3], [product_id |-> "p2", quantity |-> 1] >>,
      << [product_id |-> "p1", quantity |-> 1], [product_id |-> "p1", quantity |-> 3] >>,
      << [product_id |-> "p1", quantity |-> 3], [product_id |-> "p2", quantity |-> 3] >>,
      << [product_id |-> "p1", quantity |-> 3], [product_id |-> "p2", quantity |-> -1] >>,
      << [product_id |-> "p1", quantity |-> 3], [product_id |-> "p0", quantity |-> 1] >>,
      << [product_id |-> "p2", quantity |-> 6] >> }

\* the items lists of the requests handled in parallel
NumberItemChoices ==
    { << [product_id |-> "p1", quantity |-> 3], [product_id |-> "p2", quantity |-> 1] >>,
      << [product_id |-> "p1", quantity |-> 1], [product_id |-> "p1", quantity |-> 3] >>,
      << [product_id |-> "p2", quantity |-> 2] >> }

\* Request bodies of POST /orders/: delivery_fee, or NoFee when the key is absent
FeeChoices == {NoFee, 50, 60}

ValIds == {"VAL1"}
UnknownTran == MaxOrders + 1

VARIABLES
    stock,       \* Product.stock, per product
    orders,      \* Order rows with their OrderItem rows; index = Order.id
    now,         \* timezone.now()
    parcels,     \* parcels booked with the courier (merchant invoice ids)
    inflight,    \* requests between their first read and their response
    confirmLog,  \* per order: responses to the confirm calls of its sellers so far
    last,        \* the last request handled and its response
    layer,       \* the channel layer: group members, and what each consumer has sent on
    product_price,  \* Product.price, per product
    auth         \* accounts being registered: User rows and EmailVerificationToken rows

vars == << stock, orders, now, parcels, inflight, confirmLog, last, layer, product_price, auth >>

OrderIds == 1..Len(orders)

Idle == [op |-> "idle", user |-> None, order |-> NoId, snap |-> << >>, snapStock |-> << >>, seen |-> 0]

Respond(op, o, u, code) == [op |-> op, order |-> o, code |-> code]

\* ----------------------------------------------------------------- helpers
\* Order.seller_ids
seller_ids(order) == { seller_id[order.items[i].product] : i \in 1..Len(order.items) }

\* OrderViewSet.get_queryset: role filter
InQueryset(u, order) ==
    IF role[u] = "BUYER" THEN order.buyer = u
    ELSE IF role[u] = "SELLER" THEN u \in seller_ids(order)
    ELSE TRUE

\* IsOrderOwnerOrSeller.has_object_permission
IsOrderOwnerOrSeller(u, order) ==
    \/ order.buyer = u
    \/ role[u] = "SELLER" /\ u \in seller_ids(order)

\* IsSellerForShipment.has_object_permission for a PATCH request
IsSellerForShipment(u, order) ==
    role[u] = "SELLER" /\ u \in seller_ids(order)

\* ------------------------------------------------------------------ create
\* OrderCreateSerializer.create, first loop: the index of the first item that
\* fails validation (0 when all pass).  Each item loads its own Product
\* instance, so every check reads the stock stored in the database.
RECURSIVE FirstInvalid(_, _, _)
FirstInvalid(items, i, buyer) ==
    IF i > Len(items) THEN 0
    ELSE LET p == items[i].product_id
             q == items[i].quantity
         IN IF p \notin Products THEN i
            ELSE IF stock[p] < q THEN i
            ELSE IF seller_id[p] = buyer THEN i
            ELSE FirstInvalid(items, i + 1, buyer)

\* the OrderItem rows built by the first loop
OrderItemsOf(items) ==
    [i \in 1..Len(items) |->
        [product |-> items[i].product_id,
         quantity |-> items[i].quantity,
         unit_price |-> product_price[items[i].product_id],
         total_price |-> items[i].quantity * product_price[items[i].product_id]]]

RECURSIVE SumTotal(_, _)
SumTotal(rows, i) ==
    IF i > Len(rows) THEN 0 ELSE rows[i].total_price + SumTotal(rows, i + 1)

\* second loop: each item's own Product instance still holds the stock read
\* by the first loop; it is decremented and saved with update_fields=['stock']
RECURSIVE ReduceStock(_, _, _)
ReduceStock(rows, i, db) ==
    IF i > Len(rows) THEN db
    ELSE ReduceStock(rows, i + 1,
            [db EXCEPT ![rows[i].product] = stock[rows[i].product] - rows[i].quantity])

\* second loop: the index of the first row that OrderItem.objects.create
\* refuses (0 when none): quantity is a PositiveIntegerField, whose CHECK
\* constraint (quantity >= 0) makes the INSERT raise IntegrityError
RECURSIVE FirstRefused(_, _)
FirstRefused(rows, i) ==
    IF i > Len(rows) THEN 0
    ELSE IF rows[i].quantity < 0 THEN i
    ELSE FirstRefused(rows, i + 1)

\* the rows the second loop gets through: all of them, or those before the
\* refused one
Persisted(rows) ==
    IF FirstRefused(rows, 1) = 0 THEN rows ELSE SubSeq(rows, 1, FirstRefused(rows, 1) - 1)

\* the decimal digits of n, most significant first
RECURSIVE Digits(_)
Digits(n) == IF n < 10 THEN << n >> ELSE Append(Digits(n \div 10), n % 10)

\* f'{new_num:03d}': zero-padded to at least three digits
Format03d(n) ==
    IF n < 10 THEN << 0, 0 >> \o Digits(n)
    ELSE IF n < 100 THEN << 0 >> \o Digits(n)
    ELSE Digits(n)

\* string comparison a <= b of two digit strings, as ORDER BY order_number does
RECURSIVE StrLeq(_, _)
StrLeq(a, b) ==
    IF a = << >> THEN TRUE
    ELSE IF b = << >> THEN FALSE
    ELSE IF Head(a) # Head(b) THEN Head(a) < Head(b)
    ELSE StrLeq(Tail(a), Tail(b))

\* Order.save: the number of a new order is one more than the number of the
\* order of the day that is last in the string order of order_number
NextOrderNumber ==
    IF orders = << >> THEN 1
    ELSE 1 + (CHOOSE n \in { orders[o].order_number : o \in OrderIds } :
                \A o \in OrderIds : StrLeq(Format03d(orders[o].order_number), Format03d(n)))

\* order_number is unique=True: an INSERT with a number some row has raises
\* IntegrityError
OrderNumberNeverTaken(n) == FALSE

OrderNumberTaken(n) == \E o \in OrderIds : orders[o].order_number = n

\* validated_data.get('delivery_fee', 50.00): the Decimal the DecimalField of
\* the serializer parsed from the request, or the float literal of the default
DeliveryFee(fee) ==
    IF fee = NoFee THEN [type |-> "float", value |-> DEFAULT_DELIVERY_FEE]
    ELSE [type |-> "Decimal", value |-> fee]

\* subtotal + validated_data['delivery_fee']: subtotal is a Decimal (quantity
\* times Product.price), and Decimal + float raises TypeError
AddRaisesTypeError(fee) == DeliveryFee(fee).type = "float"

\* Order.save with the delivery fee left out of the total
SaveTotalAmountNoFee(total, subtotal, fee) == subtotal

\* Order.save: total_amount is computed only when it is not set
SaveTotalAmount(total, subtotal, fee) ==
    IF total = 0 THEN subtotal + fee ELSE total

NewOrder(buyer, rows, method, fee) ==
    [order_number |-> NextOrderNumber,
     buyer |-> buyer,
     items |-> Persisted(rows),
     subtotal |-> SumTotal(rows, 1),
     delivery_fee |-> DeliveryFee(fee).value,
     total_amount |-> SaveTotalAmount(SumTotal(rows, 1) + DeliveryFee(fee).value,
                                      SumTotal(rows, 1), DeliveryFee(fee).value),
     status |-> StatusChoices.PENDING,
     payment_method |-> method,
     payment_status |-> "pending",
     sslcommerz_session_key |-> None,
     sslcommerz_tran_id |-> NoId,
     sslcommerz_val_id |-> None,
     payment_date |-> NoTime,
     redx_order_id |-> NoTracking,
     redx_tracking_number |-> NoTracking,
     shipping_status |-> "pending",
     shipped_at |-> NoTime,
     delivered_at |-> NoTime,
     reviews |-> 0]

\* what the notification channel does during a create request
ChannelOutcomes == {"sent", "no_layer", "send_error"}

\* except Exception around a block
ExceptException(e) == e \in {"AttributeError", "Exception"}

\* notify_sellers_on_order, the post_save receiver run by Order.objects.create:
\* the exception it lets out. It returns when there is no channel layer and
\* when the order has no item whose product has a seller (item_rows are the
\* OrderItem rows that exist when it runs); each group_send is in a try block
SignalError(channel, item_rows) ==
    IF channel = "no_layer" \/ item_rows = << >> THEN None
    ELSE IF channel = "send_error" /\ ~ExceptException("Exception") THEN "Exception"
    ELSE None

\* the notification block of OrderViewSet.create: the exception raised in it
NotificationError(channel) ==
    IF channel = "no_layer" THEN "AttributeError"
    ELSE IF channel = "send_error" THEN "Exception"
    ELSE None

\* the exception of the notification block reaches the caller of create
NotificationPropagates(channel) ==
    NotificationError(channel) # None /\ ~ExceptException(NotificationError(channel))

\* f"{prefix}_{id}"
GroupName(prefix, u) == prefix \o "_" \o u

\* the consumer method channels dispatches an event type to: every "." of the
\* type replaced by "_"
RECURSIVE HandlerName(_)
HandlerName(type) ==
    IF Len(type) = 0 THEN ""
    ELSE (IF SubSeq(type, 1, 1) = "." THEN "_" ELSE SubSeq(type, 1, 1))
            \o HandlerName(SubSeq(type, 2, Len(type)))

\* the event methods of OrderNotificationConsumer
ConsumerHandlers == {"order_notification"}

\* channel_layer.group_send(group, event): every consumer in the group that
\* has the method for the event's type sends the event on to its client
group_send(ly, group, event) ==
    [ly EXCEPT !.inbox =
        [u \in Users |->
            IF << group, u >> \in ly.members /\ HandlerName(event.type) \in ConsumerHandlers
            THEN ly.inbox[u] \cup {event.order}
            ELSE ly.inbox[u]]]

\* group_send to the group of each of the users, one after the other
RECURSIVE SendToAll(_, _, _, _)
SendToAll(ly, prefix, users, event) ==
    IF users = {} THEN ly
    ELSE LET u == CHOOSE x \in users : TRUE
         IN SendToAll(group_send(ly, GroupName(prefix, u), event), prefix, users \ {u}, event)

\* notify_sellers_on_order: the sends of the post_save receiver; item_rows are
\* the OrderItem rows of the order that exist when it runs
SignalNotify(ly, o, item_rows, channel) ==
    IF channel = "sent"
    THEN SendToAll(ly, "user", { seller_id[item_rows[i].product] : i \in 1..Len(item_rows) },
                   [type |-> "order_notification", order |-> o])
    ELSE ly

\* the notification block of OrderViewSet.create: the sends
ViewNotify(ly, o, order, channel) ==
    IF channel = "sent"
    THEN SendToAll(ly, "seller", seller_ids(order),
                   [type |-> "seller.notification", order |-> o])
    ELSE ly

\* OrderNotificationConsumer.connect of an authenticated user
connect(u) ==
    /\ layer' = [layer EXCEPT !.members = @ \cup {<< GroupName("user", u), u >>}]
    /\ UNCHANGED << stock, orders, now, parcels, product_price, inflight, confirmLog, auth, last >>

\* OrderNotificationConsumer.disconnect
disconnect(u) ==
    /\ << GroupName("user", u), u >> \in layer.members
    /\ layer' = [layer EXCEPT !.members = @ \ {<< GroupName("user", u), u >>}]
    /\ UNCHANGED << stock, orders, now, parcels, product_price, inflight, confirmLog, auth, last >>

\* OrderViewSet.create with OrderCreateSerializer, the channel behaving as given
create_channel(u, items, method, fee, channel) ==
    /\ Len(orders) < MaxOrders
    /\ UNCHANGED << now, parcels, product_price, inflight, auth >>
    /\ IF ~is_admin_verified[u]
       THEN /\ last' = Respond("create", NoId, u, "403")
            /\ UNCHANGED << stock, orders, confirmLog, auth, layer, product_price >>
       ELSE IF Len(items) = 0 \/ FirstInvalid(items, 1, u) # 0
       THEN /\ last' = Respond("create", NoId, u, "400")
            /\ UNCHANGED << stock, orders, confirmLog, auth, layer, product_price >>
       ELSE IF AddRaisesTypeError(fee)
       THEN /\ last' = Respond("create", NoId, u, "500")
            /\ UNCHANGED << stock, orders, confirmLog, auth, layer, product_price >>
       ELSE IF SignalError(channel, << >>) # None
       THEN /\ last' = Respond("create", NoId, u, "500")
            /\ UNCHANGED << stock, orders, confirmLog, auth, layer, product_price >>
       ELSE LET rows == OrderItemsOf(items)
            IN /\ orders' = Append(orders, NewOrder(u, rows, method, fee))
               /\ layer' = IF FirstRefused(rows, 1) # 0
                           THEN SignalNotify(layer, Len(orders) + 1, << >>, channel)
                           ELSE ViewNotify(SignalNotify(layer, Len(orders) + 1, << >>, channel),
                                           Len(orders) + 1, NewOrder(u, rows, method, fee),
                                           channel)
               /\ stock' = ReduceStock(Persisted(rows), 1, stock)
               /\ confirmLog' = Append(confirmLog, << >>)
               /\ last' = Respond("create", Len(orders) + 1, u,
                                  IF FirstRefused(rows, 1) # 0 THEN "500"
                                  ELSE IF NotificationPropagates(channel) THEN "500"
                                  ELSE "201")

\* OrderViewSet.create with OrderCreateSerializer
create(u, items, method, fee) ==
    \E channel \in ChannelOutcomes : create_channel(u, items, method, fee, channel)

\* ------------------------------------- create, requests handled in parallel
\* the second loop on the Product instances loaded by the first loop: read is
\* the stock those instances hold
RECURSIVE ReduceStockFrom(_, _, _, _)
ReduceStockFrom(rows, i, db, read) ==
    IF i > Len(rows) THEN db
    ELSE ReduceStockFrom(rows, i + 1,
            [db EXCEPT ![rows[i].product] = read[rows[i].product] - rows[i].quantity], read)

\* create, first part: validation, the first loop and the amounts
create_read(r, u, items, method, fee) ==
    /\ inflight[r] = Idle
    /\ Len(orders) + Cardinality({ x \in 1..MaxInFlight : inflight[x].op = "create" })
            < MaxNumbered
    /\ UNCHANGED << stock, orders, now, parcels, layer, product_price, confirmLog, auth >>
    /\ IF ~is_admin_verified[u]
       THEN last' = Respond("create", NoId, u, "403") /\ UNCHANGED inflight
       ELSE IF Len(items) = 0 \/ FirstInvalid(items, 1, u) # 0
       THEN last' = Respond("create", NoId, u, "400") /\ UNCHANGED inflight
       ELSE IF AddRaisesTypeError(fee)
       THEN last' = Respond("create", NoId, u, "500") /\ UNCHANGED inflight
       ELSE /\ inflight' = [inflight EXCEPT ![r] =
                    [op |-> "create", user |-> u, order |-> NoId,
                     snap |-> [row |-> NewOrder(u, OrderItemsOf(items), method, fee),
                               refused |-> FirstRefused(OrderItemsOf(items), 1) # 0],
                     snapStock |-> stock, seen |-> NoId]]
            /\ UNCHANGED last

\* create, second part: Order.save reads the day's last order_number
create_number(r) ==
    /\ inflight[r].op = "create"
    /\ inflight[r].seen = NoId
    /\ inflight' = [inflight EXCEPT ![r].seen = NextOrderNumber]
    /\ UNCHANGED << stock, orders, now, parcels, layer, product_price, confirmLog, auth, last >>

\* create, third part: the INSERT of the Order row, then the second loop
create_insert(r) ==
    /\ inflight[r].op = "create"
    /\ inflight[r].seen # NoId
    /\ inflight' = [inflight EXCEPT ![r] = Idle]
    /\ UNCHANGED << now, parcels, product_price, auth >>
    /\ IF OrderNumberTaken(inflight[r].seen)
       THEN /\ last' = Respond("create", NoId, inflight[r].user, "500")
            /\ UNCHANGED << stock, orders, confirmLog, auth, layer, product_price >>
       ELSE /\ orders' = Append(orders,
                            [inflight[r].snap.row EXCEPT !.order_number = inflight[r].seen])
            /\ layer' = IF inflight[r].snap.refused
                        THEN SignalNotify(layer, Len(orders) + 1, << >>, "sent")
                        ELSE ViewNotify(SignalNotify(layer, Len(orders) + 1, << >>, "sent"),
                                        Len(orders) + 1, inflight[r].snap.row, "sent")
            /\ stock' = ReduceStockFrom(inflight[r].snap.row.items, 1, stock,
                                         inflight[r].snapStock)
            /\ confirmLog' = Append(confirmLog, << >>)
            /\ last' = Respond("create", Len(orders) + 1, inflight[r].user,
                               IF inflight[r].snap.refused THEN "500" ELSE "201")

\* ------------------------------------------------- seller actions: confirm
\* GenericAPIView.get_object with OrderViewSet.get_queryset and the object
\* permission that get_permissions returns for the action
GetObject(u, order, perm) ==
    IF ~InQueryset(u, order) THEN "404"
    ELSE IF ~perm THEN "403"
    ELSE "ok"

\* the stock loop of confirm over the prefetched items: local is the stock held
\* by the prefetched Product instances, saved the products already written
RECURSIVE ConfirmLoop(_, _, _, _)
ConfirmLoop(items, i, local, saved) ==
    IF i > Len(items) THEN [ok |-> TRUE, local |-> local, saved |-> saved]
    ELSE LET p == items[i].product
             q == items[i].quantity
         IN IF local[p] < q
            THEN [ok |-> FALSE, local |-> local, saved |-> saved]
            ELSE ConfirmLoop(items, i + 1, [local EXCEPT ![p] = @ - q], saved \cup {p})

NoWrites(code) ==
    [code |-> code, local |-> << >>, saved |-> {}, order_saved |-> FALSE, status |-> None]

\* confirm with the check of lines 251-256 left out
ConfirmOutcomeNoGuard(u, order, stk) ==
    IF GetObject(u, order, IsOrderOwnerOrSeller(u, order)) # "ok"
    THEN NoWrites(GetObject(u, order, IsOrderOwnerOrSeller(u, order)))
    ELSE IF u \notin seller_ids(order) THEN NoWrites("403")
    ELSE LET loop == ConfirmLoop(order.items, 1, stk, {})
         IN IF ~loop.ok
            THEN [code |-> "400", local |-> loop.local, saved |-> loop.saved,
                  order_saved |-> FALSE, status |-> None]
            ELSE IF ~HasMember("CONFIRMED")
            THEN [code |-> "500", local |-> loop.local, saved |-> loop.saved,
                  order_saved |-> FALSE, status |-> None]
            ELSE [code |-> "200", local |-> loop.local, saved |-> loop.saved,
                  order_saved |-> TRUE, status |-> StatusChoices.CONFIRMED]

\* OrderViewSet.confirm on the order and the products loaded by get_object:
\* the response, the Product rows it saves, and the status it saves the order
\* with.  Line 252 builds [StatusChoices.CONFIRMED, StatusChoices.SHIPPED]
\* before it compares, line 270 reads StatusChoices.CONFIRMED again.
ConfirmOutcome(u, order, stk) ==
    IF GetObject(u, order, IsOrderOwnerOrSeller(u, order)) # "ok"
    THEN NoWrites(GetObject(u, order, IsOrderOwnerOrSeller(u, order)))
    ELSE IF u \notin seller_ids(order) THEN NoWrites("403")
    ELSE IF ~HasMember("CONFIRMED") THEN NoWrites("500")
    ELSE IF order.status \in {StatusChoices.CONFIRMED, StatusChoices.SHIPPED}
    THEN NoWrites("400")
    ELSE LET loop == ConfirmLoop(order.items, 1, stk, {})
         IN IF ~loop.ok
            THEN [code |-> "400", local |-> loop.local, saved |-> loop.saved,
                  order_saved |-> FALSE, status |-> None]
            ELSE IF ~HasMember("CONFIRMED")
            THEN [code |-> "500", local |-> loop.local, saved |-> loop.saved,
                  order_saved |-> FALSE, status |-> None]
            ELSE [code |-> "200", local |-> loop.local, saved |-> loop.saved,
                  order_saved |-> TRUE, status |-> StatusChoices.CONFIRMED]

\* the database after the writes of a confirm call: product.save() for every
\* item passed by the loop, then order.save() of the loaded instance; seen is
\* the number of seller confirm calls answered when the order was loaded
ConfirmWrites(o, order, res, seen) ==
    /\ stock' = [p \in Products |-> IF p \in res.saved THEN res.local[p] ELSE stock[p]]
    /\ orders' = IF res.order_saved
                 THEN [orders EXCEPT ![o] = [order EXCEPT !.status = res.status,
                                                          !.reviews = orders[o].reviews]]
                 ELSE orders
    /\ confirmLog' = IF res.code \in {"403", "404"} THEN confirmLog
                     ELSE [confirmLog EXCEPT ![o] =
                            Append(@, [code |-> res.code, wrote |-> res.saved # {}, seen |-> seen])]

\* OrderViewSet.confirm, handled without another request in between
confirm(u, o) ==
    /\ o \in OrderIds
    /\ Len(confirmLog[o]) < MaxConfirmCalls
    /\ LET res == ConfirmOutcome(u, orders[o], stock)
       IN /\ ConfirmWrites(o, orders[o], res, Len(confirmLog[o]))
          /\ last' = Respond("confirm", o, u, res.code)
    /\ UNCHANGED << now, parcels, layer, product_price, inflight, auth >>

InFlightOn(o) == { r \in 1..MaxInFlight : inflight[r].op = "confirm" /\ inflight[r].order = o }

\* confirm, first part: get_object loads the order, its items and their products
confirm_get_object(r, u, o) ==
    /\ o \in OrderIds
    /\ inflight[r] = Idle
    /\ Len(confirmLog[o]) + Cardinality(InFlightOn(o)) < MaxConfirmCalls
    /\ inflight' = [inflight EXCEPT ![r] =
            [op |-> "confirm", user |-> u, order |-> o, snap |-> orders[o],
             snapStock |-> stock, seen |-> Len(confirmLog[o])]]
    /\ UNCHANGED << stock, orders, now, parcels, layer, product_price, confirmLog, auth, last >>

\* confirm, second part: the checks and the writes on what get_object loaded
confirm_respond(r) ==
    /\ inflight[r].op = "confirm"
    /\ LET req == inflight[r]
           res == ConfirmOutcome(req.user, req.snap, req.snapStock)
       IN /\ ConfirmWrites(req.order, req.snap, res, req.seen)
          /\ last' = Respond("confirm", req.order, req.user, res.code)
    /\ inflight' = [inflight EXCEPT ![r] = Idle]
    /\ UNCHANGED << now, parcels, layer, product_price, auth >>

\* ---------------------------------------------------- seller actions: ship
CourierOutcomes == {"no_api_key", "tracking_id", "no_tracking_id", "http_error", "network_error"}

\* {n:0wd}: the decimal digits of n, zeros added on the left up to w characters
RECURSIVE ZeroPad(_, _)
ZeroPad(s, w) == IF Len(s) >= w THEN s ELSE ZeroPad("0" \o s, w)

\* the text of order_number, ORD-{date}-{n:03d}, on the day of the model
OrderNumberText(n) == "ORD-YYYYMMDD-" \o ZeroPad(ToString(n), 3)

\* s[-3:]
LastThree(s) == IF Len(s) <= 3 THEN s ELSE SubSeq(s, Len(s) - 2, Len(s))

\* the mock tracking number RDX{order.id:06d}{order.order_number[-3:]}
MockTracking(o, order) ==
    "RDX" \o ZeroPad(ToString(o), 6) \o LastThree(OrderNumberText(order.order_number))

\* result.get('tracking_id') of a booking the courier accepted
CourierTrackingId(o) == "TRK" \o ToString(o)

\* create_redx_shipment with a failing courier reported as a failure
create_redx_shipment_failing(o, order, outcome) ==
    IF outcome = "tracking_id"
    THEN [success |-> TRUE,
          tracking_number |-> CourierTrackingId(o),
          order_id |-> [kind |-> "order_number", id |-> order.order_number, suffix |-> NoId],
          message |-> None]
    ELSE [success |-> outcome = "no_api_key",
          tracking_number |-> IF outcome = "no_api_key" THEN MockTracking(o, order) ELSE "",
          order_id |-> [kind |-> "RDX-ORD", id |-> o, suffix |-> NoId],
          message |-> "RedX API error"]

\* create_redx_shipment
create_redx_shipment(o, order, outcome) ==
    IF outcome = "tracking_id"
    THEN [success |-> TRUE,
          tracking_number |-> CourierTrackingId(o),
          order_id |-> [kind |-> "order_number", id |-> order.order_number, suffix |-> NoId],
          message |-> None]
    ELSE [success |-> TRUE,
          tracking_number |-> MockTracking(o, order),
          order_id |-> [kind |-> "RDX-ORD", id |-> o, suffix |-> NoId],
          message |-> IF outcome = "no_api_key"
                      THEN "Mock tracking (RedX API key not configured)"
                      ELSE "Mock tracking (RedX API error: " \o outcome \o ")"]

\* a call of create_redx_shipment on an order, its result kept as the answer
book_shipment(o, outcome) ==
    /\ o \in OrderIds
    /\ last' = Respond("create_redx_shipment", o, None,
                       create_redx_shipment(o, orders[o], outcome))
    /\ UNCHANGED << stock, orders, now, parcels, layer, product_price, inflight, confirmLog, auth >>

\* OrderViewSet.ship: the response
ShipResponse(u, order) ==
    IF GetObject(u, order, IsSellerForShipment(u, order)) # "ok"
    THEN GetObject(u, order, IsSellerForShipment(u, order))
    ELSE IF u \notin seller_ids(order) THEN "403"
    ELSE IF order.payment_status # "success" /\ order.payment_method = PAYMENT_METHOD_SSLCOMMERZ
    THEN "400"
    ELSE IF ~HasMember("CONFIRMED") THEN "500"
    ELSE IF order.status # StatusChoices.CONFIRMED THEN "400"
    ELSE "200"

\* OrderViewSet.ship
ship(u, o, outcome) ==
    /\ o \in OrderIds
    /\ last' = Respond("ship", o, u, ShipResponse(u, orders[o]))
    /\ IF ShipResponse(u, orders[o]) = "200"
       THEN LET res == create_redx_shipment(o, orders[o], outcome)
            IN /\ parcels' = parcels \cup {o}
               /\ orders' = [orders EXCEPT
                    ![o].status = IF @ \in {StatusChoices.PENDING, StatusChoices.PAID}
                                  THEN StatusChoices.SHIPPED ELSE @,
                    ![o].shipping_status = "in_transit",
                    ![o].shipped_at = now,
                    ![o].redx_tracking_number = res.tracking_number,
                    ![o].redx_order_id = res.order_id]
       ELSE UNCHANGED << parcels, orders >>
    /\ UNCHANGED << stock, now, inflight, confirmLog, auth, layer, product_price >>

\* ship, first part: get_object loads the order
ship_get_object(r, u, o) ==
    /\ o \in OrderIds
    /\ inflight[r] = Idle
    /\ inflight' = [inflight EXCEPT ![r] =
            [op |-> "ship", user |-> u, order |-> o, snap |-> orders[o],
             snapStock |-> stock, seen |-> NoId]]
    /\ UNCHANGED << stock, orders, now, parcels, layer, product_price, confirmLog, auth, last >>

\* ship, second part: the checks, the booking and the save of what get_object loaded
ship_respond(r, outcome) ==
    /\ inflight[r].op = "ship"
    /\ LET req == inflight[r]
           code == ShipResponse(req.user, req.snap)
       IN /\ last' = Respond("ship", req.order, req.user, code)
          /\ IF code = "200"
             THEN LET res == create_redx_shipment(req.order, req.snap, outcome)
                  IN /\ parcels' = parcels \cup {req.order}
                     /\ orders' = [orders EXCEPT ![req.order] =
                          [req.snap EXCEPT
                             !.status = IF @ \in {StatusChoices.PENDING, StatusChoices.PAID}
                                        THEN StatusChoices.SHIPPED ELSE @,
                             !.shipping_status = "in_transit",
                             !.shipped_at = now,
                             !.redx_tracking_number = res.tracking_number,
                             !.redx_order_id = res.order_id]]
             ELSE UNCHANGED << parcels, orders >>
    /\ inflight' = [inflight EXCEPT ![r] = Idle]
    /\ UNCHANGED << stock, now, confirmLog, auth, layer, product_price >>

\* ------------------------------------------- seller actions: partial_update
NewStatusValues == {None, "cancelled", "shipped"}

\* partial_update without the check of lines 138-143
PartialUpdateResponseNoStateCheck(u, order, new_status) ==
    IF ~InQueryset(u, order) THEN "404"
    ELSE IF ~IsSellerForShipment(u, order) THEN "403"
    ELSE IF new_status # None /\ new_status # StatusChoices.CANCELLED THEN "400"
    ELSE "200"

\* OrderViewSet.partial_update: the response
PartialUpdateResponse(u, order, new_status) ==
    IF GetObject(u, order, IsSellerForShipment(u, order)) # "ok"
    THEN GetObject(u, order, IsSellerForShipment(u, order))
    ELSE IF u \notin seller_ids(order) THEN "403"
    ELSE IF new_status # None /\ new_status # StatusChoices.CANCELLED THEN "400"
    ELSE IF order.status \in {StatusChoices.DELIVERED, StatusChoices.CANCELLED} THEN "400"
    ELSE "200"

\* OrderViewSet.partial_update
partial_update(u, o, new_status) ==
    /\ o \in OrderIds
    /\ last' = Respond("partial_update", o, u, PartialUpdateResponse(u, orders[o], new_status))
    /\ orders' = IF PartialUpdateResponse(u, orders[o], new_status) = "200" /\ new_status # None
                 THEN [orders EXCEPT ![o].status = new_status]
                 ELSE orders
    /\ UNCHANGED << stock, now, parcels, layer, product_price, inflight, confirmLog, auth >>

\* ----------------------------------------------------- seller actions: PUT
\* status is a writable ChoiceField of OrderDetailSerializer
PutStatusValues == { StatusChoices[n] : n \in DOMAIN StatusChoices }

\* ModelViewSet.update (PUT), which OrderViewSet does not override: the body
\* repeats the order's fields and names the status to store
update(u, o, new_status) ==
    /\ o \in OrderIds
    /\ last' = Respond("update", o, u, GetObject(u, orders[o], IsSellerForShipment(u, orders[o])))
    /\ orders' = IF GetObject(u, orders[o], IsSellerForShipment(u, orders[o])) = "ok"
                 THEN [orders EXCEPT ![o].status = new_status]
                 ELSE orders
    /\ UNCHANGED << stock, now, parcels, layer, product_price, inflight, confirmLog, auth >>

\* ------------------------------------------------------------------- list
\* the ordering query parameter of GET /orders/; "" when it is absent
OrderingParams == {"", "created_at", "-created_at", "bogus"}

\* OrderViewSet.ordering_fields that the requests of the model name
ordering_fields == {"created_at"}

\* the Case/When annotation of get_queryset
delivery_priority(order) ==
    IF order.status \in {StatusChoices.PENDING, StatusChoices.PAID,
                         StatusChoices.PROCESSING, StatusChoices.SHIPPED}
    THEN 1
    ELSE 2

\* get_queryset: the ordering of the queryset it returns; Order.Meta.ordering
\* when it adds none
QuerysetOrdering(param) ==
    IF param = "" THEN << "delivery_priority", "-created_at" >>
    ELSE << "-created_at" >>

\* OrderingFilter.get_ordering: the valid fields of the parameter, or the
\* ordering attribute of the view
FilterOrdering(param) ==
    IF param # "" /\ (IF SubSeq(param, 1, 1) = "-" THEN SubSeq(param, 2, Len(param)) ELSE param)
                        \in ordering_fields
    THEN << param >>
    ELSE << "-created_at" >>

\* filter_queryset(get_queryset()): OrderingFilter calls order_by with its
\* ordering when it has one, which replaces the ordering of the queryset
ListOrdering(param) ==
    IF FilterOrdering(param) # << >> THEN FilterOrdering(param) ELSE QuerysetOrdering(param)

\* the sort key of an order for an ordering; created_at grows with the id
SortKey(o, ordering) ==
    [i \in 1..Len(ordering) |->
        IF ordering[i] = "delivery_priority" THEN delivery_priority(orders[o])
        ELSE IF ordering[i] = "-created_at" THEN 0 - o
        ELSE o]

\* ORDER BY: a before b
RECURSIVE KeyLess(_, _)
KeyLess(a, b) ==
    IF a = << >> \/ b = << >> THEN FALSE
    ELSE IF Head(a) # Head(b) THEN Head(a) < Head(b)
    ELSE KeyLess(Tail(a), Tail(b))

RECURSIVE Sorted(_, _)
Sorted(ids, ordering) ==
    IF ids = {} THEN << >>
    ELSE LET first == CHOOSE o \in ids :
                        \A x \in ids \ {o} : KeyLess(SortKey(o, ordering), SortKey(x, ordering))
         IN << first >> \o Sorted(ids \ {first}, ordering)

\* OrderViewSet.list: the ids of the results, in order
list(u, param) ==
    /\ last' = Respond("list", NoId, u,
                       Sorted({ o \in OrderIds : InQueryset(u, orders[o]) }, ListOrdering(param)))
    /\ UNCHANGED << stock, orders, now, parcels, layer, product_price, inflight, confirmLog, auth >>

\* ------------------------------------------------------------ product price
\* prices a request or the admin form may carry
PriceChoices == {0, 95}

\* IsSellerOrReadOnly on a write: a verified seller, and the product's owner
IsSellerOrReadOnly(u, p) ==
    /\ role[u] = "SELLER"
    /\ is_admin_verified[u]
    /\ seller_id[p] = u

\* ProductViewSet.update with ProductCreateUpdateSerializer: the response to a
\* request that carries a price
UpdateProductResponse(u, p, new_price) ==
    IF ~IsSellerOrReadOnly(u, p) THEN "403"
    ELSE IF new_price <= 0 THEN "400"
    ELSE "200"

\* ProductViewSet.update
update_product(u, p, new_price) ==
    /\ last' = Respond("update_product", NoId, u, UpdateProductResponse(u, p, new_price))
    /\ product_price' = IF UpdateProductResponse(u, p, new_price) = "200"
                        THEN [product_price EXCEPT ![p] = new_price]
                        ELSE product_price
    /\ UNCHANGED << stock, orders, now, parcels, inflight, confirmLog, auth, layer >>

\* ProductAdmin change form with the order rows rewritten at the new price
admin_change_product_repricing(p, new_price) ==
    /\ product_price' = [product_price EXCEPT ![p] = new_price]
    /\ orders' = [o \in OrderIds |->
                    LET rows == orders[o].items
                    IN [orders[o] EXCEPT !.items =
                          [i \in 1..Len(rows) |->
                              IF rows[i].product = p
                              THEN [rows[i] EXCEPT !.unit_price = new_price,
                                                   !.total_price = rows[i].quantity * new_price]
                              ELSE rows[i]]]]
    /\ last' = Respond("admin_change_product", NoId, None, "302")
    /\ UNCHANGED << stock, now, parcels, inflight, confirmLog, auth, layer >>

\* ProductAdmin change form: the staff user stores a price
admin_change_product(p, new_price) ==
    /\ product_price' = [product_price EXCEPT ![p] = new_price]
    /\ last' = Respond("admin_change_product", NoId, None, "302")
    /\ UNCHANGED << stock, orders, now, parcels, inflight, confirmLog, auth, layer >>

\* ------------------------------------------------------------------ review
\* OrderAdmin change form: the staff user stores a status and, when asked,
\* delivered_at
AdminStatusValues == {StatusChoices.SHIPPED, StatusChoices.DELIVERED}

admin_change(o, new_status, set_delivered_at) ==
    /\ o \in OrderIds
    /\ orders' = [orders EXCEPT ![o].status = new_status,
                                ![o].delivered_at = IF set_delivered_at THEN now ELSE @]
    /\ last' = Respond("admin_change", o, None, "302")
    /\ UNCHANGED << stock, now, parcels, layer, product_price, inflight, confirmLog, auth >>

\* days counted when a started day counts as a whole one
DaysSinceRoundedUp(time, delivered_at) ==
    (time - delivered_at + TicksPerDay - 1) \div TicksPerDay

\* (timezone.now() - order.delivered_at).days: whole days, rounded down
DaysSince(time, delivered_at) == (time - delivered_at) \div TicksPerDay

\* the message of the cooldown error
CooldownMessage(remaining_days) ==
    "You can review this order in " \o ToString(remaining_days) \o " day(s)"

\* the body of POST /orders/{id}/review/: the order it names (NoId when the
\* key is missing) and the rating
BodyOrderChoices == {NoId} \cup (1..MaxOrders)

RatingChoices == {0, 5}

\* OrderReviewCreateSerializer.is_valid on the body: field validation, the
\* UniqueValidator of the one-to-one field, then validate() on the named order
ReviewBodyValid(u, body_order, rating, time) ==
    /\ body_order \in OrderIds
    /\ rating \in 1..5
    /\ orders[body_order].reviews = 0
    /\ orders[body_order].buyer = u
    /\ orders[body_order].status = StatusChoices.DELIVERED
    /\ orders[body_order].delivered_at # NoTime
    /\ DaysSince(time, orders[body_order].delivered_at) >= MIN_REVIEW_DAYS

\* OrderViewSet.review: the response
ReviewResponse(u, order, body_order, rating, time) ==
    IF GetObject(u, order, IsOrderOwnerOrSeller(u, order)) # "ok"
    THEN GetObject(u, order, IsOrderOwnerOrSeller(u, order))
    ELSE IF order.buyer # u THEN "403"
    ELSE IF order.reviews > 0 THEN "400 You have already reviewed this order"
    ELSE IF order.status # StatusChoices.DELIVERED
    THEN "400 You can only review delivered orders"
    ELSE IF order.delivered_at = NoTime THEN "400 Order has not been delivered yet"
    ELSE IF DaysSince(time, order.delivered_at) < MIN_REVIEW_DAYS
    THEN "400 " \o CooldownMessage(MIN_REVIEW_DAYS - DaysSince(time, order.delivered_at))
    ELSE IF ~ReviewBodyValid(u, body_order, rating, time) THEN "400 Validation error"
    ELSE "200"

\* OrderViewSet.review
review(u, o, body_order, rating) ==
    /\ o \in OrderIds
    /\ last' = Respond("review", o, u, ReviewResponse(u, orders[o], body_order, rating, now))
    /\ orders' = IF ReviewResponse(u, orders[o], body_order, rating, now) = "200"
                 THEN [orders EXCEPT ![o].reviews = @ + 1]
                 ELSE orders
    /\ UNCHANGED << stock, now, parcels, layer, product_price, inflight, confirmLog, auth >>

\* the clock, in steps up to 20 days
AdvanceSteps == {1, 10 * TicksPerDay, 20 * TicksPerDay - 1}

Advance(d) ==
    /\ now + d <= 1 + MaxDays * TicksPerDay
    /\ now' = now + d
    /\ UNCHANGED << stock, orders, parcels, layer, product_price, inflight, confirmLog, auth, last >>

\* ---------------------------------------------------------------- payments
\* Order.objects.get(sslcommerz_tran_id=tran_id): the matching order ids
ByTranId(t) == { o \in OrderIds : t # NoId /\ orders[o].sslcommerz_tran_id = t }

TranIds == (1..MaxOrders) \cup {UnknownTran}

\* generate_sslcommerz_tran_id: a fresh identifier, here the order's own id
generate_sslcommerz_tran_id(o) == o

\* ---------------------------------------- gateway response normalization
\* A Python str is a sequence of tokens: a plain string is one token, JSON
\* text is its tokens ("{", key, ":", value, ",", ..., "}").
\* json.dumps of an object with string values, keys in the given order
RECURSIVE DumpsPairs(_, _)
DumpsPairs(d, keys) ==
    IF keys = << >> THEN << >>
    ELSE << Head(keys), ":" >> \o d[Head(keys)]
            \o (IF Len(keys) > 1 THEN << "," >> ELSE << >>)
            \o DumpsPairs(d, Tail(keys))

Dumps(d, keys) == << "{" >> \o DumpsPairs(d, keys) \o << "}" >>

\* the value that stands for json.loads raising JSONDecodeError
JsonError == [JSONDecodeError |-> << >>]

\* the empty object
EmptyDict == [k \in {} |-> << >>]

\* the text between the braces: key ":" value, separated by ","
RECURSIVE LoadsPairs(_, _)
LoadsPairs(t, acc) ==
    IF Len(t) < 3 \/ t[2] # ":" \/ t[1] \in {"{", "}", ":", ","} \/ t[3] \in {"{", "}", ":", ","}
    THEN JsonError
    ELSE LET d == [k \in (DOMAIN acc) \cup {t[1]} |-> IF k = t[1] THEN << t[3] >> ELSE acc[k]]
         IN IF Len(t) = 3 THEN d
            ELSE IF t[4] # "," THEN JsonError
            ELSE LoadsPairs(SubSeq(t, 5, Len(t)), d)

\* json.loads with every text refused
LoadsNothing(t) == JsonError

\* json.loads of a text that should hold one object with string values
Loads(t) ==
    IF Len(t) < 2 \/ t[1] # "{" \/ t[Len(t)] # "}" THEN JsonError
    ELSE IF Len(t) = 2 THEN EmptyDict
    ELSE LoadsPairs(SubSeq(t, 2, Len(t) - 1), EmptyDict)

IsDict(v) == v # JsonError

\* str.upper() on the status texts of the model
Upper(v) == IF v = << "success" >> THEN << "SUCCESS" >> ELSE v

\* d.get(key, '')
Get(d, key) == IF key \in DOMAIN d THEN d[key] ELSE << "" >>

Truthy(v) == v # << "" >> /\ v # << >>

\* a or b or ...: the first truthy value among d.get(key) for the keys
RECURSIVE FirstTruthy(_, _)
FirstTruthy(d, keys) ==
    IF keys = << >> THEN << "" >>
    ELSE IF Truthy(Get(d, Head(keys))) THEN Get(d, Head(keys))
    ELSE FirstTruthy(d, Tail(keys))

UrlKeys == << "redirectGatewayURL", "GatewayPageURL", "redirectGatewayUrl", "gateway_url", "redirect_url" >>

NestedUrlKeys == << "redirectGatewayURL", "GatewayPageURL", "redirectGatewayUrl" >>

\* response.json() holds one key whose value is the text of an object that
\* has a status: that object is taken as the result
Unwrap(result) ==
    IF Cardinality(DOMAIN result) = 1
    THEN LET first_value == result[CHOOSE k \in DOMAIN result : TRUE]
         IN IF first_value # << >> /\ Head(first_value) = "{"
               /\ IsDict(Loads(first_value)) /\ "status" \in DOMAIN Loads(first_value)
            THEN Loads(first_value)
            ELSE result
    ELSE result

\* the keys whose value is a text that names a gateway URL and parses to an
\* object with status SUCCESS and a gateway URL
NestedHits(result) ==
    { k \in DOMAIN result :
        /\ \/ \E i \in 1..Len(result[k]) :
                   result[k][i] \in {"redirectGatewayURL", "GatewayPageURL"}
           \/ \E i \in 1..(Len(result[k]) - 2) :
                   SubSeq(result[k], i, i + 2) = << "status", ":", "SUCCESS" >>
        /\ IsDict(Loads(result[k]))
        /\ Upper(Get(Loads(result[k]), "status")) = << "SUCCESS" >>
        /\ Truthy(FirstTruthy(Loads(result[k]), NestedUrlKeys)) }

\* create_sslcommerz_session, from the parsed body to the returned dict; the
\* gateway URLs of the model match none of the patterns searched last
Normalize(body) ==
    LET result == Unwrap(body)
        status == Upper(Get(result, "status"))
        gateway_url == FirstTruthy(result, UrlKeys)
        hits == NestedHits(result)
        inner == Loads(result[CHOOSE k \in hits : TRUE])
        found == ~Truthy(gateway_url) /\ hits # {}
        final_url == IF found THEN FirstTruthy(inner, NestedUrlKeys) ELSE gateway_url
        final_status == IF found THEN << "SUCCESS" >> ELSE status
    IN IF final_status = << "SUCCESS" >> /\ Truthy(final_url)
       THEN [success |-> TRUE, gateway_url |-> final_url]
       ELSE [success |-> FALSE, gateway_url |-> << "" >>]

\* bodies the gateway may answer with
GatewayStatuses == {"SUCCESS", "success", "FAILED"}

GatewayUrls == {"https://pay/x", "https://pay/y", ""}

WrapperKeys == {"data", "status", "error_details"}

GatewayObject(st, key, url) ==
    [k \in {"status", key} |-> IF k = "status" THEN << st >> ELSE << url >>]

Wrapped(wrapper, text) == [k \in {wrapper} |-> text]

GatewayBodies ==
    LET objs == { << st, key, url >> : st \in GatewayStatuses,
                  key \in {"redirectGatewayURL", "GatewayPageURL"}, url \in GatewayUrls }
    IN { GatewayObject(x[1], x[2], x[3]) : x \in objs }
       \cup { Wrapped(w, Dumps(GatewayObject(x[1], x[2], x[3]), << "status", x[2] >>)) :
                w \in WrapperKeys, x \in objs }
       \cup { Wrapped(w, << "{", "status", ":" >>) : w \in WrapperKeys }

\* create_sslcommerz_session on a body of the gateway, its result kept as the
\* answer
normalize_response(body) ==
    /\ last' = Respond("create_sslcommerz_session", NoId, None,
                       [body |-> body, result |-> Normalize(body)])
    /\ UNCHANGED << stock, orders, now, parcels, layer, product_price, inflight, confirmLog, auth >>

\* outcomes of the gateway call in create_sslcommerz_session
SessionOutcomes == {"url_and_key", "url_only", "failed"}

\* initiate_payment with create_sslcommerz_session
initiate_payment(u, o, outcome) ==
    /\ o \in OrderIds
    /\ UNCHANGED << stock, now, parcels, layer, product_price, inflight, confirmLog, auth >>
    /\ IF orders[o].buyer # u
       THEN /\ last' = Respond("initiate_payment", o, u, "404")
            /\ UNCHANGED orders
       ELSE IF orders[o].payment_status = "success"
       THEN /\ last' = Respond("initiate_payment", o, u, "400")
            /\ UNCHANGED orders
       ELSE LET tran == IF orders[o].sslcommerz_tran_id = NoId
                        THEN generate_sslcommerz_tran_id(o)
                        ELSE orders[o].sslcommerz_tran_id
                key == IF outcome = "url_and_key" THEN "KEY"
                       ELSE orders[o].sslcommerz_session_key
            IN /\ orders' = [orders EXCEPT ![o].sslcommerz_tran_id = tran,
                                           ![o].sslcommerz_session_key = key]
               /\ last' = Respond("initiate_payment", o, u,
                                  IF outcome = "failed" THEN "500" ELSE "200")

\* validate_sslcommerz_transaction: the status of the JSON object the
\* validation API answers with, or "error" for the {'error': ...} returned
\* when the call fails
ValidationResults == {"VALID", "VALIDATED", "INVALID_TRANSACTION", "error"}

\* validation_result.get('status') in ('VALID', 'VALIDATED')
ReportsSuccess(result) == result \in {"VALID", "VALIDATED"}

\* payment_success
payment_success(t, val_id, result) ==
    /\ UNCHANGED << stock, now, parcels, layer, product_price, inflight, confirmLog, auth >>
    /\ IF t = NoId
       THEN /\ last' = Respond("payment_success", NoId, None, "failed_missing_tran_id")
            /\ UNCHANGED orders
       ELSE IF ByTranId(t) = {}
       THEN /\ last' = Respond("payment_success", NoId, None, "failed_order_not_found")
            /\ UNCHANGED orders
       ELSE LET o == CHOOSE x \in ByTranId(t) : TRUE
            IN IF val_id = None
               THEN /\ last' = Respond("payment_success", o, None, "success")
                    /\ UNCHANGED orders
               ELSE IF ReportsSuccess(result)
               THEN /\ orders' = [orders EXCEPT ![o].payment_status = "success",
                                                ![o].status = StatusChoices.PAID,
                                                ![o].sslcommerz_val_id = val_id,
                                                ![o].payment_date = now]
                    /\ last' = Respond("payment_success", o, None, "success_validated")
               ELSE /\ orders' = [orders EXCEPT ![o].payment_status = "pending_validation"]
                    /\ last' = Respond("payment_success", o, None, "success")

\* payment_fail
payment_fail(t) ==
    /\ UNCHANGED << stock, now, parcels, layer, product_price, inflight, confirmLog, auth >>
    /\ IF t # NoId /\ ByTranId(t) # {}
       THEN LET o == CHOOSE x \in ByTranId(t) : TRUE
            IN /\ orders' = [orders EXCEPT ![o].payment_status = "failed"]
               /\ last' = Respond("payment_fail", o, None, "failed")
       ELSE /\ UNCHANGED orders
            /\ last' = Respond("payment_fail", NoId, None, "failed")

CancelStatusValues == {"CANCELLED", "FAILED", "OTHER"}

\* payment_cancel
payment_cancel(t, status_val) ==
    /\ UNCHANGED << stock, now, parcels, layer, product_price, inflight, confirmLog, auth >>
    /\ IF t # NoId /\ ByTranId(t) # {}
       THEN LET o == CHOOSE x \in ByTranId(t) : TRUE
            IN /\ orders' = [orders EXCEPT ![o].payment_status =
                                IF status_val = "CANCELLED" THEN "cancelled"
                                ELSE IF status_val = "FAILED" THEN "failed"
                                ELSE @]
               /\ last' = Respond("payment_cancel", o, None, "cancelled")
       ELSE /\ UNCHANGED orders
            /\ last' = Respond("payment_cancel", NoId, None, "cancelled")

IpnStatusValues == {"VALID", "FAILED", "CANCELLED", "OTHER"}

\* payment_ipn (POST)
payment_ipn(t, val_id, status_val, result) ==
    /\ UNCHANGED << stock, now, parcels, layer, product_price, inflight, confirmLog, auth >>
    /\ IF t = NoId
       THEN /\ last' = Respond("payment_ipn", NoId, None, "400")
            /\ UNCHANGED orders
       ELSE IF ByTranId(t) = {}
       THEN /\ last' = Respond("payment_ipn", NoId, None, "404")
            /\ UNCHANGED orders
       ELSE LET o == CHOOSE x \in ByTranId(t) : TRUE
            IN IF status_val = "VALID"
               THEN IF ReportsSuccess(result)
                    THEN /\ orders' = [orders EXCEPT ![o].payment_status = "success",
                                                     ![o].status = StatusChoices.PAID,
                                                     ![o].sslcommerz_val_id = val_id,
                                                     ![o].payment_date = now]
                         /\ last' = Respond("payment_ipn", o, None, "updated")
                    ELSE /\ last' = Respond("payment_ipn", o, None, "no_change")
                         /\ UNCHANGED orders
               ELSE IF status_val = "FAILED"
               THEN /\ orders' = [orders EXCEPT ![o].payment_status = "failed"]
                    /\ last' = Respond("payment_ipn", o, None, "updated")
               ELSE IF status_val = "CANCELLED"
               THEN /\ orders' = [orders EXCEPT ![o].payment_status = "cancelled"]
                    /\ last' = Respond("payment_ipn", o, None, "updated")
               ELSE /\ last' = Respond("payment_ipn", o, None, "no_change")
                    /\ UNCHANGED orders

\* ------------------------------------- payment callbacks handled in parallel
CallbackKinds == {"payment_success", "payment_ipn"}

\* payment_success on the Order instance it loaded: the row it saves, or the
\* instance unchanged when it saves nothing
PaymentSuccessRow(row, val_id, result, time) ==
    IF val_id = None THEN row
    ELSE IF ReportsSuccess(result)
    THEN [row EXCEPT !.payment_status = "success", !.status = StatusChoices.PAID,
                     !.sslcommerz_val_id = val_id, !.payment_date = time]
    ELSE [row EXCEPT !.payment_status = "pending_validation"]

\* payment_ipn on the Order instance it loaded
PaymentIpnRow(row, val_id, status_val, result, time) ==
    IF status_val = "VALID"
    THEN IF ReportsSuccess(result)
         THEN [row EXCEPT !.payment_status = "success", !.status = StatusChoices.PAID,
                          !.sslcommerz_val_id = val_id, !.payment_date = time]
         ELSE row
    ELSE IF status_val = "FAILED" THEN [row EXCEPT !.payment_status = "failed"]
    ELSE IF status_val = "CANCELLED" THEN [row EXCEPT !.payment_status = "cancelled"]
    ELSE row

\* whether the handler reaches an order.save(), which writes every column of
\* the loaded instance
CallbackSaves(kind, val_id, status_val, result) ==
    IF kind = "payment_success" THEN val_id # None
    ELSE \/ status_val = "VALID" /\ ReportsSuccess(result)
         \/ status_val \in {"FAILED", "CANCELLED"}

\* a callback, first part: Order.objects.get(sslcommerz_tran_id=tran_id)
callback_load(r, kind, t, val_id, status_val, result) ==
    /\ inflight[r] = Idle
    /\ UNCHANGED << stock, orders, now, parcels, layer, product_price, confirmLog, auth >>
    /\ IF t = NoId \/ ByTranId(t) = {}
       THEN /\ last' = Respond(kind, NoId, None, "order_not_found")
            /\ UNCHANGED inflight
       ELSE LET o == CHOOSE x \in ByTranId(t) : TRUE
            IN /\ inflight' = [inflight EXCEPT ![r] =
                    [op |-> kind, user |-> None, order |-> o,
                     snap |-> [row |-> orders[o], val_id |-> val_id,
                               status_val |-> status_val, result |-> result],
                     snapStock |-> << >>, seen |-> 0]]
               /\ UNCHANGED last

\* a callback, second part: the validation call, the assignments and
\* order.save() on the instance loaded by the first part
callback_save(r) ==
    /\ inflight[r].op \in CallbackKinds
    /\ LET req == inflight[r]
           row == IF req.op = "payment_success"
                  THEN PaymentSuccessRow(req.snap.row, req.snap.val_id, req.snap.result, now)
                  ELSE PaymentIpnRow(req.snap.row, req.snap.val_id, req.snap.status_val,
                                     req.snap.result, now)
       IN /\ orders' = IF CallbackSaves(req.op, req.snap.val_id, req.snap.status_val,
                                        req.snap.result)
                       THEN [orders EXCEPT ![req.order] =
                                [row EXCEPT !.reviews = orders[req.order].reviews]]
                       ELSE orders
          /\ last' = Respond(req.op, req.order, None, row.payment_status)
    /\ inflight' = [inflight EXCEPT ![r] = Idle]
    /\ UNCHANGED << stock, now, parcels, layer, product_price, confirmLog, auth >>

\* the clock
Tick ==
    /\ now < MaxTime
    /\ now' = now + 1
    /\ UNCHANGED << stock, orders, parcels, layer, product_price, inflight, confirmLog, auth, last >>

\* ------------------------------------------------- email verification codes
\* EmailVerificationToken.MAX_ATTEMPTS
MAX_ATTEMPTS == 5

\* create_code: expiry_hours
EXPIRY_HOURS == 1

\* the people who register an account, and the email each one registers with
Registrants == {"n1", "n2"}

email == [u \in Registrants |-> u \o "@example.com"]

\* generate_code: six-digit codes
PlainCodes == {"111111", "222222"}

PurposeChoices == [REGISTRATION |-> "REGISTRATION", EMAIL_CHANGE |-> "EMAIL_CHANGE"]

\* make_password / check_password: the stored hash is not the code, and a code
\* checks against the hash made from the same code only
make_password(plain_code) == [algorithm |-> "pbkdf2_sha256", preimage |-> plain_code]

check_password(plain_code, code_hash) == code_hash = make_password(plain_code)

\* timezone.now() in hours
NowHours == now * (24 \div TicksPerDay)

\* a token that never expires
is_expired_never(token_obj) == FALSE

\* EmailVerificationToken.is_expired
is_expired(token_obj) ==
    IF token_obj.expires_at = NoId THEN TRUE ELSE NowHours > token_obj.expires_at

\* EmailVerificationTokenManager.create_code: the rows of the table afterwards
create_code(tokens, id, user, purpose, target_email, plain_code) ==
    { t \in tokens : ~(t.user = user /\ t.purpose = purpose /\ ~t.is_verified) }
        \cup { [id |-> id, user |-> user, code_hash |-> make_password(plain_code),
                purpose |-> purpose, target_email |-> target_email,
                expires_at |-> NowHours + EXPIRY_HOURS,
                is_verified |-> FALSE, attempt_count |-> 0] }

\* EmailVerificationTokenManager.verify_code: the token found, the status
\* returned (or the exception raised) and the rows of the table afterwards
verify_code(tokens, plain_code, purpose, target_email) ==
    LET found == { t \in tokens : /\ t.purpose = purpose
                                  /\ t.target_email = target_email
                                  /\ ~t.is_verified }
    IN IF found = {}
       THEN [token |-> NoId, status |-> "NOT_FOUND", tokens |-> tokens]
       ELSE IF Cardinality(found) > 1
       THEN [token |-> NoId, status |-> "MultipleObjectsReturned", tokens |-> tokens]
       ELSE LET token_obj == CHOOSE t \in found : TRUE
                counted == [token_obj EXCEPT !.attempt_count = @ + 1]
            IN IF is_expired(token_obj)
               THEN [token |-> token_obj.id, status |-> "EXPIRED", tokens |-> tokens]
               ELSE IF token_obj.attempt_count >= MAX_ATTEMPTS
               THEN [token |-> token_obj.id, status |-> "MAX_ATTEMPTS", tokens |-> tokens]
               ELSE IF check_password(plain_code, token_obj.code_hash)
               THEN [token |-> token_obj.id, status |-> "SUCCESS",
                     tokens |-> (tokens \ {token_obj})
                                    \cup {[counted EXCEPT !.is_verified = TRUE]}]
               ELSE [token |-> token_obj.id, status |-> "INVALID",
                     tokens |-> (tokens \ {token_obj}) \cup {counted}]

\* EmailVerificationAPIView.post: the answer to a status of verify_code
VerificationResponse(status_key) ==
    IF status_key = "INVALID" THEN "400 Invalid verification code."
    ELSE IF status_key = "ATTEMPTS" THEN "400 Too many attempts. A new code may be required."
    ELSE IF status_key = "EXPIRED" THEN "400 Verification code has expired."
    ELSE IF status_key = "SUCCESS" THEN "200 Email verified successfully. You are now logged in."
    ELSE "500 An unexpected error occurred."

\* UserRegistrationAPIView.create: a new account, or a new code for an account
\* that is not active yet
register(u, plain_code) ==
    /\ auth.next_id <= MaxTokens
    /\ IF u \in auth.active
       THEN /\ last' = Respond("register", NoId, u, "400")
            /\ UNCHANGED auth
       ELSE /\ auth' = [auth EXCEPT
                    !.users = @ \cup {u},
                    !.tokens = create_code(@, auth.next_id, u, PurposeChoices.REGISTRATION,
                                           email[u], plain_code),
                    !.next_id = @ + 1]
            /\ last' = Respond("register", auth.next_id, u,
                               IF u \in auth.users THEN "200" ELSE "201")
    /\ UNCHANGED << stock, orders, now, parcels, layer, product_price, inflight, confirmLog >>

\* EmailVerificationAPIView.post
verify_email(target_email, plain_code) ==
    LET res == verify_code(auth.tokens, plain_code, PurposeChoices.REGISTRATION, target_email)
    IN /\ auth' = [auth EXCEPT
                    !.tokens = res.tokens,
                    !.active = IF res.status = "SUCCESS"
                               THEN @ \cup { t.user : t \in { x \in auth.tokens : x.id = res.token } }
                               ELSE @]
       /\ last' = Respond("verify_email", res.token, None,
                          [status |-> res.status,
                           response |-> IF res.status = "MultipleObjectsReturned"
                                        THEN "500"
                                        ELSE VerificationResponse(res.status)])
       /\ UNCHANGED << stock, orders, now, parcels, layer, product_price, inflight, confirmLog >>

Init ==
    /\ stock = InitStock
    /\ orders = << >>
    /\ now = 1
    /\ parcels = {}
    /\ inflight = [r \in 1..MaxInFlight |-> Idle]
    /\ confirmLog = << >>
    /\ last = Respond("none", NoId, None, "none")
    /\ layer = [members |-> {}, inbox |-> [u \in Users |-> {}]]
    /\ product_price = price
    /\ auth = [users |-> {}, active |-> {}, tokens |-> {}, next_id |-> 1]

Next ==
    \/ \E u \in Users, items \in ItemChoices, m \in PAYMENT_METHODS, fee \in FeeChoices :
          create(u, items, m, fee)
    \/ \E u \in Users, o \in OrderIds, out \in SessionOutcomes : initiate_payment(u, o, out)
    \/ \E t \in TranIds \cup {NoId}, v \in ValIds, r \in ValidationResults :
          payment_success(t, v, r)
    \/ \E t \in TranIds \cup {NoId} : payment_success(t, None, "error")
    \/ \E t \in TranIds \cup {NoId} : payment_fail(t)
    \/ \E t \in TranIds \cup {NoId}, sv \in CancelStatusValues : payment_cancel(t, sv)
    \/ \E t \in TranIds \cup {NoId}, v \in ValIds \cup {None}, r \in ValidationResults :
          payment_ipn(t, v, "VALID", r)
    \/ \E t \in TranIds \cup {NoId}, sv \in IpnStatusValues \ {"VALID"} :
          payment_ipn(t, None, sv, "error")
    \/ \E u \in Users, o \in OrderIds : confirm(u, o)
    \/ \E u \in Users, o \in OrderIds, out \in CourierOutcomes : ship(u, o, out)
    \/ \E u \in Users, o \in OrderIds, ns \in NewStatusValues : partial_update(u, o, ns)
    \/ Tick

Spec == Init /\ [][Next]_vars

\* confirm requests of several callers in flight at the same time
NextConfirm ==
    \/ \E u \in Users, items \in ItemChoices, m \in PAYMENT_METHODS, fee \in FeeChoices :
          create(u, items, m, fee)
    \/ \E r \in 1..MaxInFlight, u \in Users, o \in OrderIds : confirm_get_object(r, u, o)
    \/ \E r \in 1..MaxInFlight : confirm_respond(r)
    \/ \E u \in Users, o \in OrderIds, ns \in NewStatusValues : partial_update(u, o, ns)

SpecConfirm == Init /\ [][NextConfirm]_vars

\* the update endpoints of the order resource
NextUpdate ==
    \/ \E u \in Users, items \in ItemChoices, m \in PAYMENT_METHODS, fee \in FeeChoices :
          create(u, items, m, fee)
    \/ \E u \in Users, o \in OrderIds, ns \in NewStatusValues : partial_update(u, o, ns)
    \/ \E u \in Users, o \in OrderIds, ns \in PutStatusValues : update(u, o, ns)

SpecUpdate == Init /\ [][NextUpdate]_vars

\* the callbacks the gateway sends for one payment, in flight at the same time
NextCallbacks ==
    \/ \E u \in Users, items \in NumberItemChoices :
          create(u, items, PAYMENT_METHOD_SSLCOMMERZ, DEFAULT_DELIVERY_FEE)
    \/ \E u \in Users, o \in OrderIds, out \in SessionOutcomes : initiate_payment(u, o, out)
    \/ \E r \in 1..MaxInFlight, k \in CallbackKinds, t \in TranIds, v \in ValIds,
          res \in {"VALID", "error"} : callback_load(r, k, t, v, "VALID", res)
    \/ \E r \in 1..MaxInFlight : callback_save(r)
    \/ Tick

SpecCallbacks == Init /\ [][NextCallbacks]_vars

\* the bodies of the payment gateway normalized
NextGateway ==
    \/ \E u \in Users :
          create(u, << [product_id |-> "p2", quantity |-> 1] >>,
                 PAYMENT_METHOD_SSLCOMMERZ, DEFAULT_DELIVERY_FEE)
    \/ \E body \in GatewayBodies : normalize_response(body)

SpecGateway == Init /\ [][NextGateway]_vars

\* the order list read while orders are created and their status changes
NextList ==
    \/ \E r \in 1..MaxInFlight, u \in Users :
          create_read(r, u, << [product_id |-> "p1", quantity |-> 1] >>,
                      PAYMENT_METHOD_CASH_ON_DELIVERY, DEFAULT_DELIVERY_FEE)
    \/ \E r \in 1..MaxInFlight : create_number(r)
    \/ \E r \in 1..MaxInFlight : create_insert(r)
    \/ \E u \in Users, o \in OrderIds, ns \in {"delivered", "shipped"} : update(u, o, ns)
    \/ \E u \in Users, param \in OrderingParams : list(u, param)

SpecList == Init /\ [][NextList]_vars

\* product prices changing before and after orders are created
NextPrice ==
    \/ \E u \in Users, items \in NumberItemChoices, fee \in FeeChoices :
          create(u, items, PAYMENT_METHOD_CASH_ON_DELIVERY, fee)
    \/ \E u \in Users, p \in Products, np \in PriceChoices : update_product(u, p, np)
    \/ \E p \in Products, np \in PriceChoices : admin_change_product(p, np)

SpecPrice == Init /\ [][NextPrice]_vars

\* sellers connecting to the notification consumer while orders are created
NextNotify ==
    \/ \E u \in Users : connect(u)
    \/ \E u \in Users : disconnect(u)
    \/ \E u \in Users, items \in ItemChoices, m \in PAYMENT_METHODS, fee \in FeeChoices :
          create(u, items, m, fee)

SpecNotify == Init /\ [][NextNotify]_vars

\* the courier adapter called on the orders that exist
NextShipment ==
    \/ \E r \in 1..MaxInFlight, u \in Users, fee \in FeeChoices \ {NoFee} :
          create_read(r, u, << [product_id |-> "p2", quantity |-> 1] >>,
                      PAYMENT_METHOD_CASH_ON_DELIVERY, fee)
    \/ \E r \in 1..MaxInFlight : create_number(r)
    \/ \E r \in 1..MaxInFlight : create_insert(r)
    \/ \E o \in OrderIds, out \in CourierOutcomes : book_shipment(o, out)

SpecShipment == Init /\ [][NextShipment]_vars

\* ship calls, possibly overlapping, on orders paid on delivery or through the gateway
NextShip ==
    \/ \E u \in Users, m \in PAYMENT_METHODS :
          create(u, << [product_id |-> "p1", quantity |-> 3],
                       [product_id |-> "p2", quantity |-> 1] >>, m, DEFAULT_DELIVERY_FEE)
    \/ \E u \in Users, o \in OrderIds, out \in SessionOutcomes : initiate_payment(u, o, out)
    \/ \E t \in TranIds, v \in ValIds, res \in ValidationResults : payment_success(t, v, res)
    \/ \E r \in 1..MaxInFlight, u \in Users, o \in OrderIds : ship_get_object(r, u, o)
    \/ \E r \in 1..MaxInFlight, out \in CourierOutcomes : ship_respond(r, out)

SpecShip == Init /\ [][NextShip]_vars

\* registration and email verification
NextVerify ==
    \/ \E u \in Registrants, c \in PlainCodes : register(u, c)
    \/ \E e \in { email[u] : u \in Registrants } \cup {"nobody@example.com"},
          c \in PlainCodes : verify_email(e, c)
    \/ Tick

SpecVerify == Init /\ [][NextVerify]_vars

\* delivery and review
NextReview ==
    \/ \E u \in Users :
          create(u, << [product_id |-> "p1", quantity |-> 3],
                       [product_id |-> "p2", quantity |-> 1] >>,
                 PAYMENT_METHOD_CASH_ON_DELIVERY, DEFAULT_DELIVERY_FEE)
    \/ \E o \in OrderIds, ns \in AdminStatusValues, d \in BOOLEAN : admin_change(o, ns, d)
    \/ \E u \in Users, o \in OrderIds, bo \in BodyOrderChoices, rt \in RatingChoices :
          review(u, o, bo, rt)
    \/ \E d \in AdvanceSteps : Advance(d)

SpecReview == Init /\ [][NextReview]_vars

\* create requests of buyers in flight at the same time
NextCreate ==
    \/ \E r \in 1..MaxInFlight, u \in Users, items \in NumberItemChoices,
          m \in PAYMENT_METHODS, fee \in FeeChoices \ {NoFee} : create_read(r, u, items, m, fee)
    \/ \E r \in 1..MaxInFlight : create_number(r)
    \/ \E r \in 1..MaxInFlight : create_insert(r)

SpecCreate == Init /\ [][NextCreate]_vars

\* ================================================================== claims
RECURSIVE QtyFrom(_, _, _)
QtyFrom(order, p, i) ==
    IF i > Len(order.items) THEN 0
    ELSE (IF order.items[i].product = p THEN order.items[i].quantity ELSE 0)
         + QtyFrom(order, p, i + 1)

RECURSIVE OrderedFrom(_, _)
OrderedFrom(p, o) ==
    IF o > Len(orders) THEN 0 ELSE QtyFrom(orders[o], p, 1) + OrderedFrom(p, o + 1)

\* a seller confirm call on order o is answered in this step
ConfirmAnswered(o) == Len(confirmLog'[o]) = Len(confirmLog[o]) + 1

AllInStock(order) ==
    \A i \in 1..Len(order.items) : stock[order.items[i].product] >= order.items[i].quantity

IsSellerOf(u, o) == role[u] = "SELLER" /\ u \in seller_ids(orders[o])

\* C1: once an order has been created and one of its sellers has called
\* confirm on it, the stock of every product is its initial stock less the
\* quantity ordered of it, deducted once across create and confirm.
C1_StockReducedOnce ==
    (\E o \in OrderIds : confirmLog[o] # << >>)
        => \A p \in Products : stock[p] = InitStock[p] - OrderedFrom(p, 1)

C3_ConfirmSucceeds ==
    [][\A o \in OrderIds :
        (/\ ConfirmAnswered(o)
         /\ orders[o].status \in {"pending", "paid", "processing"}
         /\ AllInStock(orders[o]))
            => /\ last'.code = "200"
               /\ orders'[o].status = "confirmed"
               /\ \E n \in DOMAIN StatusChoices : StatusChoices[n] = "confirmed"]_vars

C6_SuccessNeedsValidation ==
    [][\A t \in TranIds, v \in ValIds \cup {None}, r \in ValidationResults :
        (payment_success(t, v, r) /\ ByTranId(t) # {})
            => LET o == CHOOSE x \in ByTranId(t) : TRUE
               IN IF v # None /\ ReportsSuccess(r)
                  THEN orders'[o].status = "paid" /\ orders'[o].payment_status = "success"
                  ELSE /\ orders'[o].payment_status = "pending_validation"
                       /\ orders'[o].status # "paid"]_vars

\* C7: a validated success callback delivered again for the same tran_id and
\* val_id leaves the order as the first delivery left it.
C7_ReplayChangesNothing ==
    [][\A t \in TranIds, v \in ValIds, r \in ValidationResults :
        (/\ payment_success(t, v, r)
         /\ ReportsSuccess(r)
         /\ ByTranId(t) # {}
         /\ LET o == CHOOSE x \in ByTranId(t) : TRUE
            IN /\ orders[o].payment_status = "success"
               /\ orders[o].status = "paid"
               /\ orders[o].sslcommerz_val_id = v)
            => orders' = orders]_vars

TerminalStatuses == {"delivered", "cancelled", "refunded"}

StatusRank(st) ==
    CASE st = "pending" -> 1
      [] st = "paid" -> 2
      [] st = "processing" -> 3
      [] st = "confirmed" -> 4
      [] st = "shipped" -> 5
      [] st = "delivered" -> 6
      [] OTHER -> 0

\* C8: a status of delivered, cancelled or refunded never changes again, and a
\* status changes only forward along pending, paid, processing, confirmed,
\* shipped, delivered, or to cancelled.
C8_StatusMonotonic ==
    [][\A o \in OrderIds :
        /\ orders[o].status \in TerminalStatuses => orders'[o].status = orders[o].status
        /\ orders'[o].status # orders[o].status
              => \/ orders'[o].status = "cancelled"
                 \/ StatusRank(orders'[o].status) > StatusRank(orders[o].status)]_vars

\* C9: a ship call of a seller of the order is answered with the state-conflict
\* error (400), books no parcel and changes no order, whenever the status is
\* not confirmed or the gateway payment has not succeeded.
C9_ShipRejected ==
    [][\A u \in Users, o \in OrderIds, out \in CourierOutcomes :
        (/\ ship(u, o, out)
         /\ IsSellerOf(u, o)
         /\ \/ orders[o].status # "confirmed"
            \/ /\ orders[o].payment_method = PAYMENT_METHOD_SSLCOMMERZ
               /\ orders[o].payment_status # "success")
            => /\ last'.code = "400"
               /\ orders' = orders
               /\ parcels' = parcels]_vars

\* C10: a ship call of a seller of the order, made after the order's confirm
\* call, with the payment completed (gateway) or with cash on delivery, leaves
\* the order shipped with a tracking number and shipped_at set.
C10_ShipAfterConfirm ==
    [][\A u \in Users, o \in OrderIds, out \in CourierOutcomes :
        (/\ ship(u, o, out)
         /\ IsSellerOf(u, o)
         /\ confirmLog[o] # << >>
         /\ \/ orders[o].payment_method = PAYMENT_METHOD_CASH_ON_DELIVERY
            \/ orders[o].payment_status = "success")
            => /\ orders'[o].status = "shipped"
               /\ orders'[o].redx_tracking_number # NoTracking
               /\ orders'[o].shipped_at # NoTime]_vars

RECURSIVE SumLines(_, _)
SumLines(rows, i) ==
    IF i > Len(rows) THEN 0 ELSE rows[i].unit_price * rows[i].quantity + SumLines(rows, i + 1)

\* a create request is answered 201 in this step
CreateSucceeded ==
    /\ last'.op = "create" /\ last'.code = "201"
    /\ Len(orders') = Len(orders) + 1

C12_OrderNumbersUnique ==
    \A o1, o2 \in OrderIds :
        o1 < o2 => orders[o1].order_number < orders[o2].order_number

\* two create requests read the same last order_number while an order
\* existed; one has inserted its row and the other was refused by the unique
\* constraint
C12_Witness ==
    /\ Len(orders) = 2
    /\ last = Respond("create", NoId, "b1", "500")
    /\ \A r \in 1..MaxInFlight : inflight[r] = Idle

\* C13: order creation is all-or-nothing: a request with an item that names
\* no active product, asks for more than the product's stock or names a
\* product of the buyer fails and writes no row and no stock; and every
\* request either writes nothing or creates the order with all of its items.
C13_CreateAllOrNothing ==
    [][\A u \in Users, items \in ItemChoices, m \in PAYMENT_METHODS, fee \in FeeChoices :
        (create(u, items, m, fee) /\ is_admin_verified[u] /\ Len(items) > 0)
            => /\ FirstInvalid(items, 1, u) # 0
                    => orders' = orders /\ stock' = stock /\ last'.code # "201"
               /\ \/ orders' = orders /\ stock' = stock /\ last'.code # "201"
                  \/ /\ Len(orders') = Len(orders) + 1
                     /\ Len(orders'[Len(orders')].items) = Len(items)
                     /\ last'.code = "201"]_vars

\* C14: a PATCH on an order changes nothing but the status, and the status
\* only to cancelled; a PATCH that names another status, and a PATCH on an
\* order that is delivered or cancelled, is rejected and changes nothing.
C14_PatchOnlyCancels ==
    [][\A u \in Users, o \in OrderIds, ns \in NewStatusValues :
        partial_update(u, o, ns)
            => /\ \/ orders' = orders
                  \/ orders' = [orders EXCEPT ![o].status = "cancelled"]
               /\ (ns # None /\ ns # "cancelled")
                    => orders' = orders /\ last'.code # "200"
               /\ orders[o].status \in {"delivered", "cancelled"}
                    => orders' = orders /\ last'.code # "200"]_vars

\* a PATCH of a seller of a delivered order was rejected
C14_Witness ==
    \E o \in OrderIds :
        /\ orders[o].status = "delivered"
        /\ last = Respond("partial_update", o, "s1", "400")

\* C15: a payment session request whose gateway call fails is answered with
\* the failure response and leaves every field of every order as it was.
C15_SessionFailureNoChange ==
    [][\A u \in Users, o \in OrderIds :
        (/\ initiate_payment(u, o, "failed")
         /\ orders[o].buyer = u
         /\ orders[o].payment_status # "success")
            => /\ last'.code = "500"
               /\ orders' = orders]_vars

\* C16: once the order holds a validated payment (status paid, payment_status
\* success), a success redirect or IPN for the same tran_id that finishes
\* later, however it was interleaved, leaves the status paid, the
\* payment_status success, and the payment_date and validation id as stored.
C16_CallbacksIdempotent ==
    [][\A r \in 1..MaxInFlight :
        (/\ callback_save(r)
         /\ orders[inflight[r].order].payment_status = "success"
         /\ orders[inflight[r].order].status = "paid")
            => LET o == inflight[r].order
               IN /\ orders'[o].status = "paid"
                  /\ orders'[o].payment_status = "success"
                  /\ orders'[o].payment_date = orders[o].payment_date
                  /\ orders'[o].sslcommerz_val_id = orders[o].sslcommerz_val_id]_vars

\* C17: a confirm call of a seller of the order, on an order not yet confirmed
\* whose items are all in stock, deducts the quantities of the items whose
\* product is that seller's and leaves the stock of every other product as it
\* was.
C17_ConfirmOwnItemsOnly ==
    [][\A u \in Users, o \in OrderIds :
        (/\ confirm(u, o)
         /\ IsSellerOf(u, o)
         /\ orders[o].status \in {"pending", "paid", "processing"}
         /\ AllInStock(orders[o]))
            => \A p \in Products :
                  stock'[p] = IF seller_id[p] = u
                              THEN stock[p] - QtyFrom(orders[o], p, 1)
                              ELSE stock[p]]_vars

\* C18: a review is stored only for a call of the order's buyer on a
\* delivered order with delivered_at set, at least 30 whole days after
\* delivered_at, that has no review; a call of the buyer 10 days after
\* delivery of an order without review fails with the message naming 20
\* remaining days; a call of the buyer at 30 days or more, whose body names
\* the order and a rating from 1 to 5, stores the review; and no order ever
\* has more than one review.
C18_ReviewRules ==
    /\ [](\A o \in OrderIds : orders[o].reviews <= 1)
    /\ [][\A u \in Users, o \in OrderIds, bo \in BodyOrderChoices, rt \in RatingChoices :
            review(u, o, bo, rt)
              => /\ orders'[o].reviews # orders[o].reviews
                      => /\ u = orders[o].buyer
                         /\ orders[o].status = "delivered"
                         /\ orders[o].delivered_at # NoTime
                         /\ now - orders[o].delivered_at >= 30 * TicksPerDay
                         /\ orders[o].reviews = 0
                 /\ (/\ u = orders[o].buyer
                     /\ orders[o].status = "delivered"
                     /\ orders[o].delivered_at # NoTime
                     /\ orders[o].reviews = 0)
                      => /\ (/\ now - orders[o].delivered_at >= 10 * TicksPerDay
                             /\ now - orders[o].delivered_at < 11 * TicksPerDay)
                              => /\ orders' = orders
                                 /\ last'.code = "400 You can review this order in 20 day(s)"
                         /\ (/\ now - orders[o].delivered_at >= 30 * TicksPerDay
                             /\ bo = o /\ rt \in 1..5)
                              => orders'[o].reviews = 1 /\ last'.code = "200"]_vars

\* the buyer was refused 10 days after delivery, and the order has a review
\* now
C18_Witness ==
    \E o \in OrderIds :
        /\ orders[o].reviews = 1
        /\ now - orders[o].delivered_at = 30 * TicksPerDay
        /\ last = Respond("review", o, "b1", "200")


\* C19: whatever the courier does (no API key, HTTP error, network error,
\* response without tracking_id, or a tracking id supplied),
\* create_redx_shipment answers success with a non-empty tracking number;
\* when the courier supplied none, the tracking number is RDX, the order id on
\* six digits and the last three characters of the order number, and the
\* result carries a message that starts with "Mock tracking".
C19_ShipmentNeverFails ==
    [][\A o \in OrderIds, out \in CourierOutcomes :
        book_shipment(o, out)
          => /\ last'.code.success = TRUE
             /\ last'.code.tracking_number # ""
             /\ Len(last'.code.tracking_number) > 0
             /\ out # "tracking_id"
                  => /\ last'.code.tracking_number =
                          "RDX00000" \o ToString(o) \o "00" \o ToString(orders[o].order_number)
                     /\ SubSeq(last'.code.message, 1, 13) = "Mock tracking"]_vars

\* the second order of the day was booked while the courier was unreachable
C19_Witness ==
    /\ last.op = "create_redx_shipment"
    /\ last.order = 2
    /\ orders[2].order_number = 2
    /\ Len(orders) = 2
    /\ last.code.tracking_number = "RDX000002002"
    /\ last.code.message = "Mock tracking (RedX API error: network_error)"

\* C20: a create request of a verified buyer whose items all pass validation
\* (active product of another user, quantity within stock) is answered 201 and
\* leaves its order stored, whether the notification is sent, the channel layer
\* is missing or sending raises.
C20_CreateSucceedsWhateverChannel ==
    [][\A u \in Users, items \in ItemChoices, m \in PAYMENT_METHODS, fee \in FeeChoices,
         ch \in ChannelOutcomes :
        (/\ create_channel(u, items, m, fee, ch)
         /\ is_admin_verified[u]
         /\ Len(items) > 0
         /\ FirstInvalid(items, 1, u) = 0)
            => /\ last'.code = "201"
               /\ Len(orders') = Len(orders) + 1
               /\ orders'[Len(orders')].buyer = u]_vars

\* C21: when a create request is answered 201 while the channel layer works,
\* every seller of a product of the order who is connected to the
\* notification consumer has been sent the notification of that order.
C21_SellersNotified ==
    [][\A u \in Users, items \in ItemChoices, m \in PAYMENT_METHODS, fee \in FeeChoices :
        (/\ create_channel(u, items, m, fee, "sent")
         /\ last'.code = "201")
            => \A s \in seller_ids(orders'[Len(orders')]) :
                    << "user_" \o s, s >> \in layer.members
                        => Len(orders') \in layer'.inbox[s]]_vars

C23_ActiveOrdersFirst ==
    [][\A u \in Users :
        list(u, "")
          => LET res == last'.code
                 active(o) == orders[o].status \in {"pending", "paid", "processing", "shipped"}
             IN \A i, j \in 1..Len(res) :
                    i < j => /\ ~(~active(res[i]) /\ active(res[j]))
                             /\ (active(res[i]) = active(res[j])) => res[i] > res[j]]_vars

\* C24: for the object {status: SUCCESS, redirectGatewayURL: U} with U not
\* empty, create_sslcommerz_session returns success with gateway_url U when
\* the object is the body itself, and returns the same when the body is one
\* wrapper key whose value is the JSON text of the object.
C24_WrappedSameAsUnwrapped ==
    [][\A w \in WrapperKeys, url \in GatewayUrls \ {""} :
        LET obj == [status |-> << "SUCCESS" >>, redirectGatewayURL |-> << url >>]
            text == << "{", "status", ":", "SUCCESS", ",", "redirectGatewayURL", ":", url, "}" >>
        IN /\ normalize_response(obj)
                => last'.code.result = [success |-> TRUE, gateway_url |-> << url >>]
           /\ normalize_response([k \in {w} |-> text])
                => /\ last'.code.result = [success |-> TRUE, gateway_url |-> << url >>]
                   /\ last'.code.result = Normalize(obj)]_vars

\* a body that wraps the JSON text of a successful object was normalized
C24_Witness ==
    /\ last.op = "create_sslcommerz_session"
    /\ DOMAIN last.code.body = {"data"}
    /\ last.code.body["data"] =
          << "{", "status", ":", "SUCCESS", ",", "redirectGatewayURL", ":", "https://pay/x", "}" >>
    /\ last.code.result.gateway_url = << "https://pay/x" >>

\* C25: whatever the interleaving of the create requests, no product's stock
\* is negative, and the quantity of a product in the orders created so far is
\* at most the stock the product had before them.
C25_NoOverselling ==
    \A p \in Products :
        /\ stock[p] >= 0
        /\ OrderedFrom(p, 1) <= InitStock[p]

\* C26: once an order's payment_status is success, no step of a payment
\* callback (success redirect, fail redirect, cancel redirect, IPN) changes it.
C26_SuccessIsFinal ==
    [][\A o \in DOMAIN orders :
          (/\ orders[o].payment_status = "success"
           /\ last'.op \in {"payment_success", "payment_fail", "payment_cancel", "payment_ipn"})
          => orders'[o].payment_status = "success"]_vars

C28_StockReducedBySum ==
    [][(/\ Len(orders') = Len(orders) + 1
        /\ \A i \in 1..Len(orders'[Len(orders')].items) :
               orders'[Len(orders')].items[i].quantity >= 1)
       => \A p \in Products :
             /\ QtyFrom(orders'[Len(orders')], p, 1) <= stock[p]
             /\ stock'[p] = stock[p] - QtyFrom(orders'[Len(orders')], p, 1)]_vars

\* C29: a verification answers SUCCESS only for a token that was in the table
\* and not verified yet, not past its expiry time, with fewer than MAX_ATTEMPTS
\* attempts counted and with no newer token of the same user and purpose, and
\* it leaves the token verified; a verified token stays as it is (so no token
\* answers SUCCESS twice); and a new code leaves its user no other unverified
\* token of that purpose.
C29_CodeVerifiesOnce ==
    [][/\ (/\ last'.op = "verify_email"
           /\ auth' # auth
           /\ last'.code.status = "SUCCESS")
          => \E t \in auth.tokens :
                /\ t.id = last'.order
                /\ ~t.is_verified
                /\ NowHours <= t.expires_at
                /\ t.attempt_count < MAX_ATTEMPTS
                /\ \A t2 \in auth.tokens :
                      (t2.user = t.user /\ t2.purpose = t.purpose) => t2.id <= t.id
                /\ [t EXCEPT !.is_verified = TRUE, !.attempt_count = @ + 1] \in auth'.tokens
       /\ \A t \in auth.tokens : t.is_verified => t \in auth'.tokens
       /\ auth'.next_id > auth.next_id
          => \A t, t2 \in auth'.tokens :
                (/\ t.id = auth.next_id
                 /\ t2.id # t.id
                 /\ t2.user = t.user
                 /\ t2.purpose = t.purpose) => t2.is_verified]_vars

\* C29, witness: the second token ever created has answered SUCCESS after a
\* failed attempt on it, and the first token, created for the same user, is gone
C29_Witness ==
    /\ last.op = "verify_email"
    /\ last.code.status = "SUCCESS"
    /\ last.order = 2
    /\ auth.next_id = 3
    /\ \E t \in auth.tokens : t.id = 2 /\ t.is_verified /\ t.attempt_count >= 2
    /\ Cardinality(auth.tokens) = 1

\* C30: every verification request is answered with the success response when
\* verify_code returned SUCCESS and with a 400 response otherwise, never with
\* the 500 fallback, and it activates an account only on SUCCESS.
C30_VerificationAnswers ==
    [][(last'.op = "verify_email" /\ (last' # last \/ auth' # auth))
       => /\ last'.code.status \in {"SUCCESS", "INVALID", "EXPIRED", "MAX_ATTEMPTS", "NOT_FOUND"}
          /\ SubSeq(last'.code.response, 1, 3) =
                IF last'.code.status = "SUCCESS" THEN "200" ELSE "400"
          /\ auth'.active # auth.active => last'.code.status = "SUCCESS"]_vars

====
